---------------------------- MODULE Spec2Model ----------------------------
(***************************************************************************)
(* Model of the agripricepulse market-data module (data/marketData.ts):    *)
(* the price synthesizer (generatePriceFluctuation, calculatePriceChange,  *)
(* generateMarketData, generateHistoricalData) and the analytics functions *)
(* (calculateMovingAverage, calculateVolatility,                           *)
(* calculateMarketEfficiency).                                             *)
(*                                                                         *)
(* The program computes on JavaScript numbers, i.e. IEEE-754 binary64.     *)
(* The first part of the module is therefore a binary64 arithmetic:        *)
(* 53-bit significands held as little-endian sequences of 15-bit limbs     *)
(* (TLC integers are 32 bits wide), with round-to-nearest-even after every *)
(* operation, NaN and the two infinities.  Exponent overflow, subnormals   *)
(* and the sign of zero are not modelled: no value of the model comes near *)
(* the exponent limits and the program never inspects the sign of a zero.  *)
(***************************************************************************)
EXTENDS Integers, Sequences, FiniteSets, TLC

-----------------------------------------------------------------------------
(* Natural numbers of arbitrary size: little-endian limbs, no leading zero. *)

LimbBits == 15
LimbBase == 32768
MantBits == 53

Max2(a, b) == IF a >= b THEN a ELSE b
Min2(a, b) == IF a <= b THEN a ELSE b

Limb(a, i) == IF i >= 1 /\ i <= Len(a) THEN a[i] ELSE 0

RECURSIVE BTrim(_)
BTrim(a) ==
  IF a = <<>> THEN <<>>
  ELSE IF a[Len(a)] = 0 THEN BTrim(SubSeq(a, 1, Len(a) - 1)) ELSE a

RECURSIVE BAddFrom(_, _, _, _, _)
BAddFrom(a, b, i, carry, acc) ==
  IF i > Max2(Len(a), Len(b))
  THEN (IF carry = 0 THEN acc ELSE Append(acc, carry))
  ELSE LET s == Limb(a, i) + Limb(b, i) + carry
       IN BAddFrom(a, b, i + 1, s \div LimbBase, Append(acc, s % LimbBase))

BAdd(a, b) == BAddFrom(a, b, 1, 0, <<>>)

RECURSIVE BSubFrom(_, _, _, _, _)
BSubFrom(a, b, i, borrow, acc) ==
  IF i > Len(a) THEN BTrim(acc)
  ELSE LET d == a[i] - Limb(b, i) - borrow
       IN IF d < 0 THEN BSubFrom(a, b, i + 1, 1, Append(acc, d + LimbBase))
                   ELSE BSubFrom(a, b, i + 1, 0, Append(acc, d))

\* a - b for a >= b
BSub(a, b) == BSubFrom(a, b, 1, 0, <<>>)

RECURSIVE BCmpFrom(_, _, _)
BCmpFrom(a, b, i) ==
  IF i = 0 THEN 0
  ELSE IF a[i] > b[i] THEN 1
  ELSE IF a[i] < b[i] THEN -1
  ELSE BCmpFrom(a, b, i - 1)

\* -1, 0, 1 as a < b, a = b, a > b
BCmp(a, b) ==
  IF Len(a) > Len(b) THEN 1
  ELSE IF Len(a) < Len(b) THEN -1
  ELSE BCmpFrom(a, b, Len(a))

RECURSIVE BMulSmallFrom(_, _, _, _, _)
BMulSmallFrom(a, k, i, carry, acc) ==
  IF i > Len(a) THEN (IF carry = 0 THEN acc ELSE Append(acc, carry))
  ELSE LET p == a[i] * k + carry
       IN BMulSmallFrom(a, k, i + 1, p \div LimbBase, Append(acc, p % LimbBase))

\* a * k for 0 <= k < LimbBase
BMulSmall(a, k) == IF k = 0 \/ a = <<>> THEN <<>> ELSE BMulSmallFrom(a, k, 1, 0, <<>>)

BShiftLimbs(a, n) == IF a = <<>> THEN <<>> ELSE [i \in 1..n |-> 0] \o a

RECURSIVE BMulFrom(_, _, _, _)
BMulFrom(a, b, j, acc) ==
  IF j > Len(b) THEN acc
  ELSE BMulFrom(a, b, j + 1, BAdd(acc, BShiftLimbs(BMulSmall(a, b[j]), j - 1)))

BMul(a, b) == BMulFrom(a, b, 1, <<>>)

\* a * 2^k
BShl(a, k) ==
  IF a = <<>> THEN <<>>
  ELSE LET t == k % LimbBits
           lo == 2 ^ (LimbBits - t)
           hi == 2 ^ t
           sh == [i \in 1..(Len(a) + 1) |->
                    (Limb(a, i) % lo) * hi + (Limb(a, i - 1) \div lo)]
       IN BShiftLimbs(BTrim(sh), k \div LimbBits)

\* floor(a / 2^k)
BShr(a, k) ==
  LET n == k \div LimbBits
      t == k % LimbBits
      lo == 2 ^ t
      hi == 2 ^ (LimbBits - t)
  IN IF n >= Len(a) THEN <<>>
     ELSE BTrim([i \in 1..(Len(a) - n) |->
                   (a[i + n] \div lo) + (Limb(a, i + n + 1) % lo) * hi])

RECURSIVE SmallBitLen(_)
SmallBitLen(x) == IF x = 0 THEN 0 ELSE 1 + SmallBitLen(x \div 2)

BBitLen(a) == IF a = <<>> THEN 0 ELSE (Len(a) - 1) * LimbBits + SmallBitLen(a[Len(a)])

BOdd(a) == a # <<>> /\ a[1] % 2 = 1

RECURSIVE BFromNat(_)
BFromNat(x) == IF x = 0 THEN <<>> ELSE <<x % LimbBase>> \o BFromNat(x \div LimbBase)

RECURSIVE BToNat(_)
BToNat(a) == IF a = <<>> THEN 0 ELSE a[1] + LimbBase * BToNat(Tail(a))

BOne == <<1>>


\* a * LimbBase + x
BPush(a, x) == IF a = <<>> THEN (IF x = 0 THEN <<>> ELSE <<x>>) ELSE <<x>> \o a

RECURSIVE DigitFit(_, _, _)
\* the largest q <= qhat with b * q <= r
DigitFit(r, b, qhat) ==
  IF BCmp(BMulSmall(b, qhat), r) <= 0 THEN qhat ELSE DigitFit(r, b, qhat - 1)

RECURSIVE BDivFrom(_, _, _, _, _)

\* the quotient digit d is subtracted and the division goes on below limb i
BDivSub(a, b, i, r1, q, d) ==
  BDivFrom(a, b, i - 1, BSub(r1, BMulSmall(b, d)), <<d>> \o q)

\* the quotient digit for the running remainder r1: estimated from the top
\* limbs; the top limb of b is at least LimbBase / 2, so the estimate is at
\* most 2 too large
BDivDigit(a, b, i, r1, q) ==
  BDivSub(a, b, i, r1, q,
    DigitFit(r1, b,
      Min2((Limb(r1, Len(b) + 1) * LimbBase + Limb(r1, Len(b))) \div b[Len(b)],
           LimbBase - 1)))

\* long division, one limb of a at a time from the top
BDivFrom(a, b, i, r, q) ==
  IF i = 0 THEN [q |-> BTrim(q), r |-> r]
  ELSE BDivDigit(a, b, i, BPush(r, a[i]), q)

BDivNormalized(a, b) == BDivFrom(a, b, Len(a), <<>>, <<>>)

BDivUnshift(res, s) == [q |-> res.q, r |-> BShr(res.r, s)]

BDivShifted(a, b, s) == BDivUnshift(BDivNormalized(BShl(a, s), BShl(b, s)), s)

\* [q |-> floor(a / b), r |-> a - b * q] for b > 0
BDivMod(a, b) == BDivShifted(a, b, LimbBits - SmallBitLen(b[Len(b)]))

RECURSIVE SmallSqrtBits(_, _, _)
SmallSqrtBits(v, r, b) ==
  IF b < 0 THEN r
  ELSE IF (r + 2 ^ b) * (r + 2 ^ b) <= v THEN SmallSqrtBits(v, r + 2 ^ b, b - 1)
  ELSE SmallSqrtBits(v, r, b - 1)

\* floor(sqrt(v)) for 0 <= v < LimbBase^2
SmallSqrt(v) == SmallSqrtBits(v, 0, LimbBits - 1)

\* a first approximation from above of sqrt(n), from the top limbs of n
SqrtGuess(n) ==
  LET len == Len(n)
      top == IF len % 2 = 0 THEN n[len] * LimbBase + n[len - 1] ELSE n[len]
      half == IF len % 2 = 0 THEN (len - 2) \div 2 ELSE (len - 1) \div 2
  IN BShiftLimbs(BFromNat(SmallSqrt(top) + 1), half)

RECURSIVE SqrtNewton(_, _)

SqrtNext(n, x, y) == IF BCmp(y, x) >= 0 THEN x ELSE SqrtNewton(n, y)

\* Newton's iteration from x >= floor(sqrt(n)) down to floor(sqrt(n))
SqrtNewton(n, x) == SqrtNext(n, x, BShr(BAdd(x, BDivMod(n, x).q), 1))

\* floor(sqrt(n))
BSqrt(n) == IF n = <<>> THEN <<>> ELSE SqrtNewton(n, SqrtGuess(n))

-----------------------------------------------------------------------------
(* IEEE-754 binary64 values: zero, finite s * m * 2^e with 2^52 <= m < 2^53, *)
(* infinities and NaN.                                                       *)

FZero == [k |-> "zero", s |-> 1, m |-> <<>>, e |-> 0]
FNaN == [k |-> "nan", s |-> 1, m |-> <<>>, e |-> 0]
FInf(s) == [k |-> "inf", s |-> s, m |-> <<>>, e |-> 0]
FFin(s, m, e) == [k |-> "fin", s |-> s, m |-> m, e |-> e]

IsNaN(x) == x.k = "nan"
IsFinite(x) == x.k \in {"zero", "fin"}

\* The double nearest to s * (n + f) * 2^e, ties to even, where 0 < f < 1 if
\* sticky and f = 0 otherwise (a sticky n has more than MantBits + 1 bits).
RoundCarry(s, q1, e) ==
  IF BBitLen(q1) > MantBits THEN FFin(s, BShr(q1, 1), e + 1) ELSE FFin(s, q1, e)

\* c compares the bits cut off with half a unit of q
RoundUp(s, q, e, sticky, c) ==
  RoundCarry(s,
    IF c > 0 \/ (c = 0 /\ (sticky \/ BOdd(q))) THEN BAdd(q, BOne) ELSE q, e)

RoundCut(s, n, e, sticky, sh, q) ==
  RoundUp(s, q, e + sh, sticky, BCmp(BSub(n, BShl(q, sh)), BShl(BOne, sh - 1)))

RoundLen(s, n, e, sticky, len) ==
  IF len <= MantBits
  THEN FFin(s, BShl(n, MantBits - len), e - (MantBits - len))
  ELSE RoundCut(s, n, e, sticky, len - MantBits, BShr(n, len - MantBits))

RoundPack(s, n, e, sticky) ==
  IF n = <<>> THEN FZero ELSE RoundLen(s, n, e, sticky, BBitLen(n))

Abs(i) == IF i < 0 THEN -i ELSE i

\* an integer literal or integer-valued argument as a double (exact below 2^31)
FromInt(i) ==
  IF i = 0 THEN FZero
  ELSE RoundPack(IF i < 0 THEN -1 ELSE 1, BFromNat(Abs(i)), 0, FALSE)

FNeg(x) == IF x.k \in {"fin", "inf"} THEN [x EXCEPT !.s = -x.s] ELSE x

FAbs(x) == IF x.k \in {"fin", "inf"} THEN [x EXCEPT !.s = 1] ELSE x

\* alignment distance beyond which the smaller operand is only a sticky bit
FarShift == 64

\* hi.e - lo.e > FarShift: lo only decides the direction of rounding
\* (g is hi.m with guard bits)
FAddFar(hi, lo, g) ==
  RoundPack(hi.s, IF hi.s = lo.s THEN g ELSE BSub(g, BOne), hi.e - 3, TRUE)

\* a is hi.m aligned to the exponent of lo, c compares a with lo.m
FAddNear(hi, lo, a, c) ==
  RoundPack(IF hi.s = lo.s \/ c >= 0 THEN hi.s ELSE lo.s,
            IF hi.s = lo.s THEN BAdd(a, lo.m)
            ELSE IF c >= 0 THEN BSub(a, lo.m) ELSE BSub(lo.m, a),
            lo.e, FALSE)

FAddAligned(hi, lo, a) == FAddNear(hi, lo, a, BCmp(a, lo.m))

\* hi.e >= lo.e
FAddOrdered(hi, lo) ==
  IF hi.e - lo.e > FarShift THEN FAddFar(hi, lo, BShl(hi.m, 3))
  ELSE FAddAligned(hi, lo, BShl(hi.m, hi.e - lo.e))

FAddFin(x, y) == IF x.e >= y.e THEN FAddOrdered(x, y) ELSE FAddOrdered(y, x)

\* x + y
FAdd(x, y) ==
  IF IsNaN(x) \/ IsNaN(y) THEN FNaN
  ELSE IF x.k = "inf" THEN (IF y.k = "inf" /\ y.s # x.s THEN FNaN ELSE x)
  ELSE IF y.k = "inf" THEN y
  ELSE IF x.k = "zero" THEN y
  ELSE IF y.k = "zero" THEN x
  ELSE FAddFin(x, y)

\* x - y
FSub(x, y) == FAdd(x, FNeg(y))

\* x * y
FMul(x, y) ==
  IF IsNaN(x) \/ IsNaN(y) THEN FNaN
  ELSE IF x.k = "inf" \/ y.k = "inf"
       THEN (IF x.k = "zero" \/ y.k = "zero" THEN FNaN ELSE FInf(x.s * y.s))
  ELSE IF x.k = "zero" \/ y.k = "zero" THEN FZero
  ELSE RoundPack(x.s * y.s, BMul(x.m, y.m), x.e + y.e, FALSE)

DivGuardLimbs == 4

FDivRound(x, y, d) ==
  RoundPack(x.s * y.s, d.q, x.e - y.e - DivGuardLimbs * LimbBits, d.r # <<>>)

FDivFin(x, y) == FDivRound(x, y, BDivMod(BShiftLimbs(x.m, DivGuardLimbs), y.m))

\* x / y
FDiv(x, y) ==
  IF IsNaN(x) \/ IsNaN(y) THEN FNaN
  ELSE IF x.k = "inf" THEN (IF y.k = "inf" THEN FNaN ELSE FInf(x.s * y.s))
  ELSE IF y.k = "inf" THEN FZero
  ELSE IF y.k = "zero" THEN (IF x.k = "zero" THEN FNaN ELSE FInf(x.s))
  ELSE IF x.k = "zero" THEN FZero
  ELSE FDivFin(x, y)

SqrtGuardBits == 56

\* r = floor(sqrt(n)), the root of n * 2^e2
FSqrtRound(n, e2, r) ==
  RoundPack(1, r, (e2 - SqrtGuardBits) \div 2, BCmp(BMul(r, r), n) # 0)

FSqrtOf(n, e2) == FSqrtRound(n, e2, BSqrt(n))

\* the exponent is made even, the significand gets guard bits
FSqrtFin(x) ==
  IF x.e % 2 # 0 THEN FSqrtOf(BShl(x.m, SqrtGuardBits + 1), x.e - 1)
  ELSE FSqrtOf(BShl(x.m, SqrtGuardBits), x.e)

\* Math.sqrt(x)
FSqrt(x) ==
  IF IsNaN(x) THEN FNaN
  ELSE IF x.k = "zero" THEN FZero
  ELSE IF x.s = -1 THEN FNaN
  ELSE IF x.k = "inf" THEN x
  ELSE FSqrtFin(x)

\* -1, 0, 1 as |x| < |y|, |x| = |y|, |x| > |y|, for x and y neither zero nor NaN
FCmpMag(x, y) ==
  IF x.k = "inf" THEN (IF y.k = "inf" THEN 0 ELSE 1)
  ELSE IF y.k = "inf" THEN -1
  ELSE IF x.e > y.e THEN 1
  ELSE IF x.e < y.e THEN -1
  ELSE BCmp(x.m, y.m)

FSign(x) == IF x.k = "zero" THEN 0 ELSE x.s

FCmp(x, y) ==
  IF FSign(x) # FSign(y) THEN (IF FSign(x) > FSign(y) THEN 1 ELSE -1)
  ELSE IF FSign(x) = 0 THEN 0
  ELSE FSign(x) * FCmpMag(x, y)

\* the comparison operators of the language: false when an operand is NaN
FEq(x, y) == ~IsNaN(x) /\ ~IsNaN(y) /\ FCmp(x, y) = 0
FLt(x, y) == ~IsNaN(x) /\ ~IsNaN(y) /\ FCmp(x, y) < 0
FLe(x, y) == ~IsNaN(x) /\ ~IsNaN(y) /\ FCmp(x, y) <= 0

\* Math.max(x, y)
FMax(x, y) ==
  IF IsNaN(x) \/ IsNaN(y) THEN FNaN
  ELSE IF FCmp(x, y) >= 0 THEN x ELSE y

\* Math.min(x, y)
FMin(x, y) ==
  IF IsNaN(x) \/ IsNaN(y) THEN FNaN
  ELSE IF FCmp(x, y) <= 0 THEN x ELSE y

\* Math.round(x): the nearest integer, a tie going towards +Infinity
\* c compares the fraction of |x| with 1/2, ip is the integer part of |x|
FRoundTie(x, ip, c) ==
  RoundPack(x.s, IF (x.s = 1 /\ c >= 0) \/ c > 0 THEN BAdd(ip, BOne) ELSE ip,
            0, FALSE)

FRoundFrac(x, ip) ==
  FRoundTie(x, ip,
    IF -x.e > MantBits + 1 THEN -1
    ELSE BCmp(BSub(x.m, BShl(ip, -x.e)), BShl(BOne, -x.e - 1)))

FRound(x) ==
  IF x.k # "fin" \/ x.e >= 0 THEN x ELSE FRoundFrac(x, BShr(x.m, -x.e))

-----------------------------------------------------------------------------
(* The analytics functions of data/marketData.ts.                           *)

\* a series of integer prices as the number[] the functions receive
Nums(xs) == [i \in 1..Len(xs) |-> FromInt(xs[i])]

RECURSIVE ReduceSum(_, _, _)
\* the reduce from index i (1-based) on; a sum that is NaN stays NaN
ReduceSum(xs, i, acc) ==
  IF i > Len(xs) \/ IsNaN(acc) THEN acc
  ELSE ReduceSum(xs, i + 1, FAdd(acc, xs[i]))

\* xs.reduce((sum, val) => sum + val, 0)
Sum(xs) == ReduceSum(xs, 1, FZero)

\* data.slice(start) for an integer start
Slice(data, start) ==
  LET from == IF start < 0 THEN Max2(Len(data) + start, 0) ELSE Min2(start, Len(data))
  IN SubSeq(data, from + 1, Len(data))

MovingAverageDividesByPeriod(data, period) ==
  IF Len(data) < period THEN FDiv(Sum(data), FromInt(period))
  ELSE FDiv(Sum(Slice(data, -period)), FromInt(period))

MovingAverageLeadingWindow(data, period) ==
  IF Len(data) < period THEN FDiv(Sum(data), FromInt(Len(data)))
  ELSE FDiv(Sum(SubSeq(data, 1, period)), FromInt(period))

calculateMovingAverage(data, period) ==
  IF Len(data) < period THEN FDiv(Sum(data), FromInt(Len(data)))
  ELSE LET recentData == Slice(data, -period)
       IN FDiv(Sum(recentData), FromInt(period))

\* Math.pow(x, 2)
Square(x) == FMul(x, x)

VolatilityUnguarded(prices) ==
  LET mean == FDiv(Sum(prices), FromInt(Len(prices)))
      squaredDifferences == [i \in 1..Len(prices) |-> Square(FSub(prices[i], mean))]
  IN FSqrt(FDiv(Sum(squaredDifferences), FromInt(Len(prices))))

VolatilitySample(prices) ==
  IF Len(prices) < 2 THEN FZero
  ELSE LET mean == FDiv(Sum(prices), FromInt(Len(prices)))
           squaredDifferences == [i \in 1..Len(prices) |-> Square(FSub(prices[i], mean))]
       IN FSqrt(FDiv(Sum(squaredDifferences), FromInt(Len(prices) - 1)))

calculateVolatility(prices) ==
  IF Len(prices) < 2 THEN FZero
  ELSE LET mean == FDiv(Sum(prices), FromInt(Len(prices)))
           squaredDifferences == [i \in 1..Len(prices) |-> Square(FSub(prices[i], mean))]
           variance == FDiv(Sum(squaredDifferences), FromInt(Len(prices)))
       IN FSqrt(variance)

\* the three += of the loop body
Accumulate(acc, diff1, diff2) ==
  [numerator |-> FAdd(acc.numerator, FMul(diff1, diff2)),
   denominator1 |-> FAdd(acc.denominator1, FMul(diff1, diff1)),
   denominator2 |-> FAdd(acc.denominator2, FMul(diff2, diff2))]

\* sums that are all NaN stay NaN
AllNaN(acc) ==
  IsNaN(acc.numerator) /\ IsNaN(acc.denominator1) /\ IsNaN(acc.denominator2)

RECURSIVE CorrelationLoop(_, _, _, _, _, _)
\* the for loop of calculateMarketEfficiency from index i (1-based) on
CorrelationLoop(prices1, prices2, mean1, mean2, i, acc) ==
  IF i > Len(prices1) \/ AllNaN(acc) THEN acc
  ELSE CorrelationLoop(prices1, prices2, mean1, mean2, i + 1,
         Accumulate(acc, FSub(prices1[i], mean1), FSub(prices2[i], mean2)))

\* numerator, denominator1 and denominator2 after the loop
CorrelationSums(prices1, prices2) ==
  CorrelationLoop(prices1, prices2,
    FDiv(Sum(prices1), FromInt(Len(prices1))),
    FDiv(Sum(prices2), FromInt(Len(prices1))), 1,
    [numerator |-> FZero, denominator1 |-> FZero, denominator2 |-> FZero])

\* numerator / Math.sqrt(denominator1 * denominator2)
CorrelationOf(sums) ==
  FDiv(sums.numerator, FSqrt(FMul(sums.denominator1, sums.denominator2)))

CorrelationSigned(prices1, prices2) ==
  CorrelationOf(CorrelationSums(prices1, prices2))

\* the statements after the length guard: Math.abs(correlation)
Correlation(prices1, prices2) ==
  FAbs(CorrelationOf(CorrelationSums(prices1, prices2)))

EfficiencyGuardOff(prices1, prices2) ==
  IF Len(prices1) # Len(prices2) \/ Len(prices1) < 1 THEN FZero
  ELSE Correlation(prices1, prices2)

calculateMarketEfficiency(prices1, prices2) ==
  IF Len(prices1) # Len(prices2) \/ Len(prices1) < 2 THEN FZero
  ELSE Correlation(prices1, prices2)

\* the number of array elements calculateMarketEfficiency reads: none before
\* the guard returns, else n per reduce and 2n in the loop
EfficiencyReads(prices1, prices2) ==
  IF Len(prices1) # Len(prices2) \/ Len(prices1) < 2 THEN 0
  ELSE 4 * Len(prices1)

-----------------------------------------------------------------------------
(* The price synthesizer of data/marketData.ts.                             *)

\* a decimal literal n/d of the source: the double nearest to it
Decimal(n, d) == FDiv(FromInt(n), FromInt(d))

BASE_PRICES ==
  [maize |-> [nairobi |-> 4500, mombasa |-> 4200],
   beans |-> [nairobi |-> 8500, mombasa |-> 8200]]

VOLATILITY == [maize |-> Decimal(15, 100), beans |-> Decimal(20, 100)]

\* the literals 0.5, 0.001, 0.05, 1, 10 and 100
Half == Decimal(5, 10)
Thousandth == Decimal(1, 1000)
Twentieth == Decimal(5, 100)
One == FromInt(1)
Ten == FromInt(10)
Hundred == FromInt(100)

\* BASE_PRICES as numbers
BasePrice ==
  [maize |-> [nairobi |-> FromInt(BASE_PRICES.maize.nairobi),
              mombasa |-> FromInt(BASE_PRICES.maize.mombasa)],
   beans |-> [nairobi |-> FromInt(BASE_PRICES.beans.nairobi),
              mombasa |-> FromInt(BASE_PRICES.beans.mombasa)]]

\* Values Math.random() can return: 0, 2^-36, 0.5 and 0.999998.
UniformSamples == {"zero", "tiny", "half", "nearOne"}

\* Math.sqrt(-2 * Math.log(random1)): Infinity for 0, then 7.064460135092848,
\* 1.1774100225154747 and 0.0020000009999743278
BoxMullerRadius(random1) ==
  CASE random1 = "zero" -> FInf(1)
    [] random1 = "tiny" -> FFin(1, <<31333, 11488, 2055, 226>>, -50)
    [] random1 = "half" -> FFin(1, <<31811, 18581, 23215, 150>>, -52)
    [] random1 = "nearOne" -> FFin(1, <<8705, 14530, 2361, 131>>, -61)

\* Math.cos(2 * Math.PI * random2): 1, 1 (rounded), -1 and 0.9999999999210432
BoxMullerCosine(random2) ==
  CASE random2 = "zero" -> FromInt(1)
    [] random2 = "tiny" -> FromInt(1)
    [] random2 = "half" -> FromInt(-1)
    [] random2 = "nearOne" -> FFin(1, <<9716, 32746, 32767, 255>>, -53)

\* basePrice + fluctuation without the floor
FluctuationUnclamped(basePrice, fluctuation) == FAdd(basePrice, fluctuation)

\* a clamp that also caps the price, at 1.5 times the base price
ClampCapped(basePrice, fluctuation) ==
  LET floored == FMax(FAdd(basePrice, fluctuation), FMul(basePrice, Half))
      cap == FAdd(basePrice, FMul(basePrice, Half))
  IN IF FLt(cap, floored) THEN cap ELSE floored

\* Math.max(basePrice + fluctuation, basePrice * 0.5)
Clamp(basePrice, fluctuation) ==
  FMax(FAdd(basePrice, fluctuation), FMul(basePrice, Half))

\* random1 and random2 are the two values the function draws
generatePriceFluctuation(basePrice, volatility, random1, random2) ==
  LET normalRandom == FMul(BoxMullerRadius(random1), BoxMullerCosine(random2))
      fluctuation == FMul(FMul(normalRandom, volatility), basePrice)
  IN Clamp(basePrice, fluctuation)

PriceChangeReversed(currentPrice, basePrice) ==
  LET changePercent ==
        FMul(FDiv(FSub(basePrice, currentPrice), basePrice), Hundred)
  IN FDiv(FRound(FMul(changePercent, Ten)), Ten)

PriceChangeWholePercent(currentPrice, basePrice) ==
  FRound(FMul(FDiv(FSub(currentPrice, basePrice), basePrice), Hundred))

calculatePriceChange(currentPrice, basePrice) ==
  LET changePercent ==
        FMul(FDiv(FSub(currentPrice, basePrice), basePrice), Hundred)
  IN FDiv(FRound(FMul(changePercent, Ten)), Ten)

\* Math.round(generatePriceFluctuation(BASE_PRICES[commodity][city],
\*                                     VOLATILITY[commodity]))
SnapshotPrice(commodity, city, random1, random2) ==
  FRound(generatePriceFluctuation(BasePrice[commodity][city],
                                  VOLATILITY[commodity], random1, random2))

SnapshotChangeAgainstNairobi(commodity, city, price) ==
  calculatePriceChange(price, BasePrice[commodity]["nairobi"])

SnapshotChange(commodity, city, price) ==
  calculatePriceChange(price, BasePrice[commodity][city])

\* the array the function returns, from the four prices
SnapshotRecords(currentTime, nairobiMaizePrice, mombasaMaizePrice, nairobiBeansPrice, mombasaBeansPrice) ==
  << [city |-> "Nairobi", commodity |-> "Maize",
      maizePrice |-> nairobiMaizePrice,
      maizeChange |-> SnapshotChange("maize", "nairobi", nairobiMaizePrice),
      beansPrice |-> nairobiBeansPrice,
      beansChange |-> SnapshotChange("beans", "nairobi", nairobiBeansPrice),
      lastUpdated |-> currentTime],
     [city |-> "Mombasa", commodity |-> "Beans",
      maizePrice |-> mombasaMaizePrice,
      maizeChange |-> SnapshotChange("maize", "mombasa", mombasaMaizePrice),
      beansPrice |-> mombasaBeansPrice,
      beansChange |-> SnapshotChange("beans", "mombasa", mombasaBeansPrice),
      lastUpdated |-> currentTime] >>

\* a snapshot whose second and fourth price reuse a value drawn for the price
\* before them
SnapshotSharingDraws(currentTime, random) ==
  SnapshotRecords(currentTime,
    SnapshotPrice("maize", "nairobi", random[1], random[2]),
    SnapshotPrice("maize", "mombasa", random[2], random[3]),
    SnapshotPrice("beans", "nairobi", random[5], random[6]),
    SnapshotPrice("beans", "mombasa", random[6], random[7]))

\* currentTime is the clock reading, random the values Math.random() returns
\* to the call, in order
generateMarketData(currentTime, random) ==
  SnapshotRecords(currentTime,
    SnapshotPrice("maize", "nairobi", random[1], random[2]),
    SnapshotPrice("maize", "mombasa", random[3], random[4]),
    SnapshotPrice("beans", "nairobi", random[5], random[6]),
    SnapshotPrice("beans", "mombasa", random[7], random[8]))

SnapshotDraws == 8

HistoryDays == 30

\* Math.sin((i / 30) * Math.PI * 2) for i = 0 .. 29
SeasonalSine ==
  <<
     FZero,
     FFin(1, <<22773, 22660, 29542, 212>>, -55),
     FFin(1, <<6864, 16908, 8164, 208>>, -54),
     FFin(1, <<23134, 2282, 15500, 150>>, -53),
     FFin(1, <<16065, 20583, 8030, 190>>, -53),
     FFin(1, <<19626, 20656, 23019, 221>>, -53),
     FFin(1, <<21759, 9864, 15416, 243>>, -53),
     FFin(1, <<26566, 10736, 19582, 254>>, -53),
     FFin(1, <<26567, 10736, 19582, 254>>, -53),
     FFin(1, <<21760, 9864, 15416, 243>>, -53),
     FFin(1, <<19627, 20656, 23019, 221>>, -53),
     FFin(1, <<16068, 20583, 8030, 190>>, -53),
     FFin(1, <<23135, 2282, 15500, 150>>, -53),
     FFin(1, <<6862, 16908, 8164, 208>>, -54),
     FFin(1, <<22773, 22660, 29542, 212>>, -55),
     FFin(1, <<23559, 26152, 6296, 141>>, -105),
     FFin(-1, <<22764, 22660, 29542, 212>>, -55),
     FFin(-1, <<6858, 16908, 8164, 208>>, -54),
     FFin(-1, <<23133, 2282, 15500, 150>>, -53),
     FFin(-1, <<16064, 20583, 8030, 190>>, -53),
     FFin(-1, <<19624, 20656, 23019, 221>>, -53),
     FFin(-1, <<21759, 9864, 15416, 243>>, -53),
     FFin(-1, <<26566, 10736, 19582, 254>>, -53),
     FFin(-1, <<26566, 10736, 19582, 254>>, -53),
     FFin(-1, <<21760, 9864, 15416, 243>>, -53),
     FFin(-1, <<19626, 20656, 23019, 221>>, -53),
     FFin(-1, <<16064, 20583, 8030, 190>>, -53),
     FFin(-1, <<23136, 2282, 15500, 150>>, -53),
     FFin(-1, <<6864, 16908, 8164, 208>>, -54),
     FFin(-1, <<22793, 22660, 29542, 212>>, -55)
  >>

\* a function on 1 .. n as a sequence
Tabulate(f) == <<>> \o f

\* trendFactor and seasonalFactor of every iteration: entry i + 1 is the
\* value in the iteration for i
trendFactor ==
  Tabulate([j \in 1..HistoryDays |-> FAdd(One, FMul(FromInt(j - 1), Thousandth))])

SeasonalFactorOfHalf ==
  Tabulate([j \in 1..HistoryDays |-> FAdd(One, FMul(SeasonalSine[j], Half))])

seasonalFactor ==
  Tabulate([j \in 1..HistoryDays |-> FAdd(One, FMul(SeasonalSine[j], Twentieth))])

\* basePrice * trendFactor * seasonalFactor in every iteration
Adjusted(basePrice) ==
  Tabulate([j \in 1..HistoryDays |->
              FMul(FMul(basePrice, trendFactor[j]), seasonalFactor[j])])

\* the first argument of the calls of generatePriceFluctuation in the loop
AdjustedBasePrice ==
  [maize |-> [nairobi |-> Adjusted(BasePrice.maize.nairobi),
              mombasa |-> Adjusted(BasePrice.maize.mombasa)],
   beans |-> [nairobi |-> Adjusted(BasePrice.beans.nairobi),
              mombasa |-> Adjusted(BasePrice.beans.mombasa)]]

\* VOLATILITY[commodity] * 0.5
HalfVolatility ==
  [maize |-> FMul(VOLATILITY.maize, Half), beans |-> FMul(VOLATILITY.beans, Half)]

\* BASE_PRICES[commodity][city] * trendFactor * seasonalFactor
HistoryBasePrice(commodity, city, i) == AdjustedBasePrice[commodity][city][i + 1]

HistoryPrice(commodity, city, i, random1, random2) ==
  FRound(generatePriceFluctuation(HistoryBasePrice(commodity, city, i),
           HalfVolatility[commodity], random1, random2))

\* A time value (a Date): day is the number of whole days since the epoch,
\* ms the milliseconds within the day.  MakeTime carries ms into the day.
MakeTime(day, ms) == [day |-> day + (ms \div 86400000), ms |-> ms % 86400000]

\* t is earlier than u
Before(t, u) == t.day < u.day \/ (t.day = u.day /\ t.ms < u.ms)

\* the day number of the first of month mn of year ym, plus dt - 1
\* (the calendar is the proleptic Gregorian one)
MakeDay(ym, mn, dt) ==
  LET y == IF mn <= 2 THEN ym - 1 ELSE ym
      era == y \div 400
      yoe == y - era * 400
      doy == (153 * (IF mn > 2 THEN mn - 3 ELSE mn + 9) + 2) \div 5
      doe == yoe * 365 + (yoe \div 4) - (yoe \div 100) + doy
  IN era * 146097 + doe - 719468 + dt - 1

\* year, month (1 .. 12) and day of the month of a day number
CivilFromDays(days) ==
  LET z == days + 719468
      era == z \div 146097
      doe == z - era * 146097
      yoe == (doe - (doe \div 1460) + (doe \div 36524) - (doe \div 146096)) \div 365
      doy == doe - (365 * yoe + (yoe \div 4) - (yoe \div 100))
      mp == (5 * doy + 2) \div 153
      m == IF mp < 10 THEN mp + 3 ELSE mp - 9
  IN [year |-> yoe + era * 400 + (IF m <= 2 THEN 1 ELSE 0),
      month |-> m,
      day |-> doy - ((153 * mp + 2) \div 5) + 1]

\* A time zone of the host: its offset from UTC in ms before and after its one
\* change of offset, which happens on local day `day` when the wall clock
\* reaches 02:00 (clocks go forward to 03:00) or 03:00 (clocks go back to
\* 02:00).  A zone without daylight saving has before = after.
Zones ==
  { [before |-> 0, after |-> 0, day |-> 0],
    [before |-> 3 * 3600000, after |-> 3 * 3600000, day |-> 0],
    [before |-> -5 * 3600000, after |-> -5 * 3600000, day |-> 0],
    [before |-> 3600000, after |-> 2 * 3600000, day |-> MakeDay(2024, 3, 31)],
    [before |-> 2 * 3600000, after |-> 3600000, day |-> MakeDay(2024, 10, 27)] }

\* the offset of local time at the instant t
OffsetAt(zone, t) ==
  LET wall == IF zone.after > zone.before THEN 2 * 3600000 ELSE 3 * 3600000
  IN IF Before(t, MakeTime(zone.day, wall - zone.before))
     THEN zone.before ELSE zone.after

\* the offset by which a local time is turned into an instant: a local time
\* that is skipped or repeated by the change takes the offset before it
LocalOffset(zone, local) ==
  IF Before(local, MakeTime(zone.day, 3 * 3600000)) THEN zone.before ELSE zone.after

\* date.setDate(date.getDate() - i): the local date fields of t with the day
\* of the month lowered by i, as an instant
setDate(zone, t, i) ==
  LET local == MakeTime(t.day, t.ms + OffsetAt(zone, t))
      fields == CivilFromDays(local.day)
      newDay == MakeDay(fields.year, fields.month, fields.day - i)
  IN MakeTime(newDay, local.ms - LocalOffset(zone, [day |-> newDay, ms |-> local.ms]))

\* date.toISOString().split('T')[0]: the UTC date of t, "YYYY-MM-DD" as
\* <<year, month, day>>
toISODate(t) ==
  LET fields == CivilFromDays(t.day) IN <<fields.year, fields.month, fields.day>>

\* the point pushed by the loop body for i, drawing random[k] .. random[k + 7]
HistoryPoint(date, i, random, k) ==
  [date |-> date,
   nairobiMaize |-> HistoryPrice("maize", "nairobi", i, random[k], random[k + 1]),
   nairobiBeans |-> HistoryPrice("beans", "nairobi", i, random[k + 2], random[k + 3]),
   mombasaMaize |-> HistoryPrice("maize", "mombasa", i, random[k + 4], random[k + 5]),
   mombasaBeans |-> HistoryPrice("beans", "mombasa", i, random[k + 6], random[k + 7])]

\* the loop runs i = 29 down to 0; point j of the result is the one for
\* i = 30 - j
\* today is the clock reading, zone the time zone of the host
generateHistoricalData(today, zone, random) ==
  [j \in 1..HistoryDays |->
     HistoryPoint(toISODate(setDate(zone, today, HistoryDays - j)),
                  HistoryDays - j, random, 8 * (j - 1) + 1)]

HistoryDraws == 8 * HistoryDays

-----------------------------------------------------------------------------
(* State: a call of an analytics function (fn, its arguments, its result    *)
(* and the number of array elements it read), and the App component with    *)
(* its random source and clock.                                             *)

VARIABLES fn, prices1, prices2, period, priceArg, baseArg, result, reads

\* an earlier call of an analytics function: its name, arguments and result
VARIABLE remembered

VARIABLES seed, rngPos, clock, timeZone, mounted, ticks, marketData,
          historicalData, lastUpdated

\* the calls made so far: of generateMarketData, of generateHistoricalData
\* and of Math.random
VARIABLES snapshotCalls, historyCalls, draws

\* A second run of the two generators, on its own random source, clock
\* reading and host time zone: its inputs and, once it has run, its outputs
\* (<<>> where no second run is made).
VARIABLE replay

\* the statistics MarketAnalytics showed at its last render
VARIABLE stats

\* The timers of the host: the ids of the intervals that are registered and
\* not cleared, the id the interval effect of the App holds, and the number
\* of setInterval calls so far (ids are handed out in sequence); mounts is
\* the number of times the App was mounted.
VARIABLES timers, interval, registrations, mounts

tvars == <<timers, interval, registrations, mounts>>

avars == <<fn, prices1, prices2, period, priceArg, baseArg, result, reads,
           remembered>>

gvars == <<seed, rngPos, clock, timeZone, mounted, ticks, marketData,
           historicalData, lastUpdated, snapshotCalls, historyCalls, draws,
           replay, stats, tvars>>

vars == <<avars, gvars>>

StreamLen == 3
MaxTicks == 2
MaxMounts == 2

\* the delay of the refresh interval, in milliseconds
RefreshInterval == 30000

\* The random source: the stream seed[1], seed[2], ... repeated; rngPos is
\* the position of the value the next Math.random() returns.
Seeds == [1..StreamLen -> UniformSamples]

\* the next n values of the random source
Draws(n) == [k \in 1..n |-> seed[((rngPos + k - 2) % StreamLen) + 1]]

Advance(n) == ((rngPos + n - 1) % StreamLen) + 1

\* the state of analytics when no call is made
AnalyticsIdle ==
  /\ fn = "none"
  /\ prices1 = <<>>
  /\ prices2 = <<>>
  /\ period = 0
  /\ priceArg = 0
  /\ baseArg = 0
  /\ result = FZero
  /\ reads = 0
  /\ remembered = [fn |-> "none", prices1 |-> <<>>, prices2 |-> <<>>,
                   period |-> 0, result |-> FZero]

RECURSIVE MathMax(_)
\* Math.max(...xs)
MathMax(xs) ==
  IF Len(xs) = 0 THEN FInf(-1)
  ELSE FMax(MathMax(SubSeq(xs, 1, Len(xs) - 1)), xs[Len(xs)])

RECURSIVE MathMin(_)
\* Math.min(...xs)
MathMin(xs) ==
  IF Len(xs) = 0 THEN FInf(1)
  ELSE FMin(MathMin(SubSeq(xs, 1, Len(xs) - 1)), xs[Len(xs)])

\* an App whose spreads are taken between the first and the last record
AppStatsFirstMinusLast ==
  IF Len(marketData) = 0 THEN "null"
  ELSE LET maize == [k \in 1..Len(marketData) |-> marketData[k].maizePrice]
           beans == [k \in 1..Len(marketData) |-> marketData[k].beansPrice]
       IN [avgMaizePrice |-> FDiv(Sum(maize), FromInt(Len(marketData))),
           avgBeansPrice |-> FDiv(Sum(beans), FromInt(Len(marketData))),
           maxMaizePrice |-> MathMax(maize),
           minMaizePrice |-> MathMin(maize),
           maxBeansPrice |-> MathMax(beans),
           minBeansPrice |-> MathMin(beans),
           priceSpreadMaize |-> FSub(maize[1], maize[Len(marketData)]),
           priceSpreadBeans |-> FSub(beans[1], beans[Len(marketData)])]

\* calculateMarketStats of App, on its marketData (null for an empty one)
AppCalculateMarketStats ==
  IF Len(marketData) = 0 THEN "null"
  ELSE LET maize == [k \in 1..Len(marketData) |-> marketData[k].maizePrice]
           beans == [k \in 1..Len(marketData) |-> marketData[k].beansPrice]
       IN [avgMaizePrice |-> FDiv(Sum(maize), FromInt(Len(marketData))),
           avgBeansPrice |-> FDiv(Sum(beans), FromInt(Len(marketData))),
           maxMaizePrice |-> MathMax(maize),
           minMaizePrice |-> MathMin(maize),
           maxBeansPrice |-> MathMax(beans),
           minBeansPrice |-> MathMin(beans),
           priceSpreadMaize |-> FSub(MathMax(maize), MathMin(maize)),
           priceSpreadBeans |-> FSub(MathMax(beans), MathMin(beans))]

\* calculatePriceSpreads of MarketAnalytics, on the marketData it is given;
\* find returns the first record of the city
calculatePriceSpreads ==
  LET nairobi == { k \in 1..Len(marketData) : marketData[k].city = "Nairobi" }
      mombasa == { k \in 1..Len(marketData) : marketData[k].city = "Mombasa" }
      First(S) == CHOOSE k \in S : \A j \in S : k <= j
  IN IF Len(marketData) < 2 \/ nairobi = {} \/ mombasa = {}
     THEN [maizeSpread |-> FZero, beansSpread |-> FZero]
     ELSE [maizeSpread |->
             FAbs(FSub(marketData[First(nairobi)].maizePrice,
                       marketData[First(mombasa)].maizePrice)),
           beansSpread |->
             FAbs(FSub(marketData[First(nairobi)].beansPrice,
                       marketData[First(mombasa)].beansPrice))]

\* volatility, ma7, ma30 and efficiency of one commodity
CommodityStats(avgPrices, nairobiPrices, mombasaPrices) ==
  [volatility |-> calculateVolatility(avgPrices),
   ma7 |-> calculateMovingAverage(avgPrices, 7),
   ma30 |-> calculateMovingAverage(avgPrices, 30),
   efficiency |-> calculateMarketEfficiency(nairobiPrices, mombasaPrices)]

\* calculateMarketStats of MarketAnalytics, on the historicalData it is given
calculateMarketStats ==
  IF Len(historicalData) = 0
  THEN [maizeStats |-> [volatility |-> FZero, ma7 |-> FZero, ma30 |-> FZero,
                        efficiency |-> FZero],
        beansStats |-> [volatility |-> FZero, ma7 |-> FZero, ma30 |-> FZero,
                        efficiency |-> FZero]]
  ELSE [maizeStats |->
          CommodityStats(
            [j \in 1..Len(historicalData) |->
               FDiv(FAdd(historicalData[j].nairobiMaize,
                         historicalData[j].mombasaMaize), FromInt(2))],
            [j \in 1..Len(historicalData) |-> historicalData[j].nairobiMaize],
            [j \in 1..Len(historicalData) |-> historicalData[j].mombasaMaize]),
        beansStats |->
          CommodityStats(
            [j \in 1..Len(historicalData) |->
               FDiv(FAdd(historicalData[j].nairobiBeans,
                         historicalData[j].mombasaBeans), FromInt(2))],
            [j \in 1..Len(historicalData) |-> historicalData[j].nairobiBeans],
            [j \in 1..Len(historicalData) |-> historicalData[j].mombasaBeans])]

\* the App component before its effects have run, after its first render
AppConstructed ==
  /\ rngPos = 1
  /\ mounted = FALSE
  /\ ticks = 0
  /\ marketData = <<>>
  /\ historicalData = <<>>
  /\ lastUpdated = clock
  /\ snapshotCalls = 0
  /\ historyCalls = 0
  /\ draws = 0
  /\ stats = calculateMarketStats
  /\ timers = {}
  /\ interval = 0
  /\ registrations = 0
  /\ mounts = 0

\* Clock readings: the days are chosen so that the 30 days before them hold
\* the end of a February (of a leap year and of another year), the turn of a
\* year and the two changes of offset of Zones; the times of day are near
\* midnight UTC, near the changes of offset and at noon.
ClockReadings ==
  { MakeTime(MakeDay(d[1], d[2], d[3]), h * 1800000) :
      d \in { <<2024, 3, 15>>, <<2023, 3, 10>>, <<2024, 1, 10>>,
              <<2024, 4, 5>>, <<2024, 11, 10>> },
      h \in {1, 3, 5, 24, 43, 45, 47} }

\* a host in Nairobi (UTC+3, no daylight saving) at noon UTC of 2024-03-15
HostInNairobi ==
  /\ clock = MakeTime(MakeDay(2024, 3, 15), 24 * 1800000)
  /\ timeZone = [before |-> 3 * 3600000, after |-> 3 * 3600000, day |-> 0]

-----------------------------------------------------------------------------
(* Calls of the analytics functions on bounded inputs.                      *)

MaxLen == 3
MaxVal == 2
MaxPeriod == 4
MaxSlope == 1
MaxShift == 1

\* the series the specification's examples use
ExampleSeries ==
  { <<10, 20, 30>>, <<1, 2, 3, 4, 5, 6, 7, 8, 9, 10>>, <<100, 100, 100>>,
    <<10, 20>>, <<1, 2, 3>>, <<2, 4, 6>>, <<5, 5, 5>>, <<1, 2>> }

BoundedSeries == UNION { [1..n -> 0..MaxVal] : n \in 0..MaxLen }

Series == BoundedSeries \cup ExampleSeries

\* small periods, and the two periods the callers pass (7 and 30 days)
Periods == (0..MaxPeriod) \cup {7, 30}

\* The second series of a call of calculateMarketEfficiency on xs: a * xs + b
\* (constant for a = 0), xs with data missing at the end or with one more
\* point, and the examples.
AffineImages(xs) ==
  { [i \in 1..Len(xs) |-> a * xs[i] + b] : a \in (-MaxSlope)..MaxSlope, b \in 0..MaxShift }

ProperPrefixes(xs) == { SubSeq(xs, 1, n) : n \in 0..(Len(xs) - 1) }

Extensions(xs) == { Append(xs, v) : v \in 0..MaxVal }

Partners(xs) ==
  AffineImages(xs) \cup ProperPrefixes(xs) \cup Extensions(xs) \cup ExampleSeries

InitAnalytics ==
  /\ fn = "none"
  /\ prices1 \in Series
  /\ prices2 = <<>>
  /\ period = 0
  /\ priceArg = 0
  /\ baseArg = 0
  /\ result = FZero
  /\ reads = 0
  /\ remembered = [fn |-> "none", prices1 |-> <<>>, prices2 |-> <<>>,
                   period |-> 0, result |-> FZero]
  /\ seed = [k \in 1..StreamLen |-> "half"]
  /\ HostInNairobi
  /\ AppConstructed
  /\ replay = <<>>

CallMovingAverage ==
  /\ fn = "none"
  /\ \E p \in Periods :
       /\ period' = p
       /\ result' = calculateMovingAverage(Nums(prices1), p)
  /\ fn' = "calculateMovingAverage"
  /\ UNCHANGED <<prices1, prices2, priceArg, baseArg, reads, remembered, gvars>>

\* a calculateVolatility that keeps a running value between calls
CallVolatilityAccumulating ==
  /\ fn = "none"
  /\ result' = FAdd(remembered.result, calculateVolatility(Nums(prices1)))
  /\ fn' = "calculateVolatility"
  /\ UNCHANGED <<prices1, prices2, period, priceArg, baseArg, reads, remembered,
               gvars>>

CallVolatility ==
  /\ fn = "none"
  /\ result' = calculateVolatility(Nums(prices1))
  /\ fn' = "calculateVolatility"
  /\ UNCHANGED <<prices1, prices2, period, priceArg, baseArg, reads, remembered,
               gvars>>

CallMarketEfficiency ==
  /\ fn = "none"
  /\ \E q \in Partners(prices1) :
       /\ prices2' = q
       /\ result' = calculateMarketEfficiency(Nums(prices1), Nums(q))
       /\ reads' = EfficiencyReads(Nums(prices1), Nums(q))
  /\ fn' = "calculateMarketEfficiency"
  /\ UNCHANGED <<prices1, period, priceArg, baseArg, remembered, gvars>>

NextAnalytics == CallMovingAverage \/ CallVolatility \/ CallMarketEfficiency

SpecAnalytics == InitAnalytics /\ [][NextAnalytics]_vars

\* Calls one after another, as in MarketAnalytics, which passes one array to
\* calculateVolatility and twice to calculateMovingAverage: after a call the
\* caller holds its arrays and makes the next call, on the array it has or on
\* another.  Any one earlier call is remembered.
CallSeries == { <<1, 2, 3>>, <<0, 1, 0>> }

InitCalls ==
  /\ InitAnalytics
  /\ prices1 \in CallSeries

Return ==
  /\ fn # "none"
  /\ fn' = "none"
  /\ \/ UNCHANGED remembered
     \/ remembered' = [fn |-> fn, prices1 |-> prices1, prices2 |-> prices2,
                       period |-> period, result |-> result]
  /\ prices1' \in CallSeries
  /\ prices2' = <<>>
  /\ period' = 0
  /\ result' = FZero
  /\ reads' = 0
  /\ UNCHANGED <<priceArg, baseArg, gvars>>

SpecCalls == InitCalls /\ [][NextAnalytics \/ Return]_vars

-----------------------------------------------------------------------------
(* Calls of calculatePriceChange on integer prices.                         *)

MaxBase == 8
MaxDelta == 12

\* base prices: small ones, zero, one with ties at the tenth (2000) and
\* the four of BASE_PRICES
ChangeBases == (0..MaxBase) \cup {2000, 4200, 4500, 8200, 8500}

\* prices for a base: zero, half and twice the base, and the prices near it
ChangePrices(base) ==
  {0, base \div 2, 2 * base} \cup
  { base + d : d \in { e \in (-MaxDelta)..MaxDelta : base + e >= 0 } }

InitChange ==
  /\ AnalyticsIdle
  /\ seed = [k \in 1..StreamLen |-> "half"]
  /\ HostInNairobi
  /\ AppConstructed
  /\ replay = <<>>

CallPriceChange ==
  /\ fn = "none"
  /\ \E base \in ChangeBases : \E price \in ChangePrices(base) :
       /\ baseArg' = base
       /\ priceArg' = price
       /\ result' = calculatePriceChange(FromInt(price), FromInt(base))
  /\ fn' = "calculatePriceChange"
  /\ UNCHANGED <<prices1, prices2, period, reads, remembered, gvars>>

SpecChange == InitChange /\ [][CallPriceChange]_vars

-----------------------------------------------------------------------------
(* The App component driving the synthesizer: the mount effect generates    *)
(* the snapshot and the history, every tick of the interval a new snapshot. *)

InitGen ==
  /\ AnalyticsIdle
  /\ seed \in Seeds
  /\ HostInNairobi
  /\ AppConstructed
  /\ replay = <<>>

\* The two effects of a mount, run one after the other before any timer can
\* fire: initializeData(), then setInterval, whose id the effect keeps for
\* its cleanup.  The clock readings of one handler (currentTime, today and
\* the argument of setLastUpdated) are taken at one instant of the model's
\* clock.  A mount after an unmount is a new App, whose state the first
\* effect sets.
Mount ==
  /\ ~mounted
  /\ mounts < MaxMounts
  /\ mounted' = TRUE
  /\ mounts' = mounts + 1
  /\ registrations' = registrations + 1
  /\ interval' = registrations'
  /\ timers' = timers \cup {interval'}
  /\ marketData' = generateMarketData(clock, Draws(SnapshotDraws))
  /\ historicalData' =
       generateHistoricalData(clock, timeZone,
         SubSeq(Draws(SnapshotDraws + HistoryDraws), SnapshotDraws + 1,
                SnapshotDraws + HistoryDraws))
  /\ lastUpdated' = clock
  /\ rngPos' = Advance(SnapshotDraws + HistoryDraws)
  /\ snapshotCalls' = snapshotCalls + 1
  /\ historyCalls' = historyCalls + 1
  /\ draws' = draws + SnapshotDraws + HistoryDraws
  /\ UNCHANGED <<avars, seed, clock, timeZone, ticks, replay, stats>>

\* a callback that refreshes the history as well
TickRegeneratesHistory ==
  /\ timers # {}
  /\ ticks < MaxTicks
  /\ ticks' = ticks + 1
  /\ clock' = MakeTime(clock.day, clock.ms + RefreshInterval)
  /\ marketData' = generateMarketData(clock', Draws(SnapshotDraws))
  /\ historicalData' =
       generateHistoricalData(clock', timeZone,
         SubSeq(Draws(SnapshotDraws + HistoryDraws), SnapshotDraws + 1,
                SnapshotDraws + HistoryDraws))
  /\ lastUpdated' = clock'
  /\ rngPos' = Advance(SnapshotDraws + HistoryDraws)
  /\ snapshotCalls' = snapshotCalls + 1
  /\ historyCalls' = historyCalls + 1
  /\ draws' = draws + SnapshotDraws + HistoryDraws
  /\ UNCHANGED <<avars, seed, timeZone, mounted, replay, stats, tvars>>

\* the callback of a registered interval, RefreshInterval after the
\* previous one
Tick ==
  /\ timers # {}
  /\ ticks < MaxTicks
  /\ ticks' = ticks + 1
  /\ clock' = MakeTime(clock.day, clock.ms + RefreshInterval)
  /\ marketData' = generateMarketData(clock', Draws(SnapshotDraws))
  /\ lastUpdated' = clock'
  /\ rngPos' = Advance(SnapshotDraws)
  /\ snapshotCalls' = snapshotCalls + 1
  /\ draws' = draws + SnapshotDraws
  /\ UNCHANGED <<avars, seed, timeZone, mounted, historicalData, historyCalls,
               replay, stats, tvars>>

NextGen == Mount \/ Tick

SpecGen == InitGen /\ [][NextGen]_vars

\* the App on hosts of every time zone of Zones at every clock reading of
\* ClockReadings, with one stream of random values
InitClock ==
  /\ AnalyticsIdle
  /\ seed = [k \in 1..StreamLen |-> IF k = 1 THEN "tiny" ELSE "half"]
  /\ clock \in ClockReadings
  /\ timeZone \in Zones
  /\ AppConstructed
  /\ replay = <<>>

SpecClock == InitClock /\ [][NextGen]_vars

\* random sources for the runs: streams that differ in their first two
\* values, so that two runs can agree on the draws of some prices and differ
\* on those of others
RunSeeds ==
  { s \in Seeds : /\ s[1] \in {"zero", "tiny", "nearOne"}
                  /\ s[2] \in {"half", "nearOne"}
                  /\ \A k \in 3..StreamLen : s[k] = "half" }

\* MarketAnalytics renders again, on the state of the App
Render ==
  /\ stats' = calculateMarketStats
  /\ UNCHANGED <<avars, seed, rngPos, clock, timeZone, mounted, ticks,
                 marketData, historicalData, lastUpdated, snapshotCalls,
                 historyCalls, draws, replay, tvars>>

\* the App mounted at noon or just after midnight UTC of the days of
\* ClockReadings, MarketAnalytics rendering at any time
InitStats ==
  /\ AnalyticsIdle
  /\ seed \in RunSeeds
  /\ clock \in { c \in ClockReadings : c.ms \in {1800000, 24 * 1800000} }
  /\ timeZone = [before |-> 3 * 3600000, after |-> 3 * 3600000, day |-> 0]
  /\ AppConstructed
  /\ replay = <<>>

SpecStats == InitStats /\ [][Mount \/ Render]_vars

\* an unmount whose cleanup leaves the interval registered
UnmountKeepsInterval ==
  /\ mounted
  /\ mounted' = FALSE
  /\ UNCHANGED <<avars, seed, rngPos, clock, timeZone, ticks, marketData,
                 historicalData, lastUpdated, snapshotCalls, historyCalls,
                 draws, replay, stats, tvars>>

\* The App is unmounted: the cleanup of the interval effect clears the
\* interval it registered.  The state of the App is kept as it was left.
Unmount ==
  /\ mounted
  /\ mounted' = FALSE
  /\ timers' = timers \ {interval}
  /\ UNCHANGED <<avars, seed, rngPos, clock, timeZone, ticks, marketData,
                 historicalData, lastUpdated, snapshotCalls, historyCalls,
                 draws, replay, stats, interval, registrations, mounts>>

\* the App constructed on a host in Nairobi, for the streams of RunSeeds
InitLife ==
  /\ AnalyticsIdle
  /\ seed \in RunSeeds
  /\ HostInNairobi
  /\ AppConstructed
  /\ replay = <<>>

\* the App mounted, refreshed by its interval, unmounted and mounted again
SpecLife == InitLife /\ [][Mount \/ Tick \/ Unmount]_vars

\* Two runs of the generators, each with Math.random and the clock given:
\* the App's mount effect on seed and clock, and a second run on the source
\* and the clock reading of replay, on the same host or on one whose offset
\* changes within the 30 days.

InitRuns ==
  /\ AnalyticsIdle
  /\ seed \in RunSeeds
  /\ clock = MakeTime(MakeDay(2024, 4, 5), 47 * 1800000)
  /\ timeZone = [before |-> 3 * 3600000, after |-> 3 * 3600000, day |-> 0]
  /\ AppConstructed
  /\ \E s \in RunSeeds : \E t \in {clock, MakeTime(clock.day + 1, clock.ms)} :
       \E z \in {timeZone, [before |-> 3600000, after |-> 2 * 3600000,
                             day |-> MakeDay(2024, 3, 31)]} :
         replay = [seed |-> s, clock |-> t, timeZone |-> z,
                   marketData |-> <<>>, historicalData |-> <<>>]

\* generateMarketData() and generateHistoricalData() run again, Math.random
\* returning replay.seed from its start and the clock reading replay.clock
Rerun ==
  /\ mounted
  /\ replay.marketData = <<>>
  /\ LET random == [k \in 1..(SnapshotDraws + HistoryDraws) |->
                      replay.seed[((k - 1) % StreamLen) + 1]]
     IN replay' =
          [replay EXCEPT
             !.marketData = generateMarketData(replay.clock, random),
             !.historicalData =
                generateHistoricalData(replay.clock, replay.timeZone,
                  SubSeq(random, SnapshotDraws + 1, SnapshotDraws + HistoryDraws))]
  /\ UNCHANGED <<avars, seed, rngPos, clock, timeZone, mounted, ticks,
                 marketData, historicalData, lastUpdated, snapshotCalls,
                 historyCalls, draws, stats, tvars>>

SpecRuns == InitRuns /\ [][Mount \/ Rerun]_vars

-----------------------------------------------------------------------------
(* Exact (integer and rational) reference notions for the claims.           *)

RECURSIVE IntSum(_)
IntSum(xs) == IF xs = <<>> THEN 0 ELSE Head(xs) + IntSum(Tail(xs))

IntSumSq(xs) == IntSum([i \in 1..Len(xs) |-> xs[i] * xs[i]])

IsConstant(xs) == \A i \in 1..Len(xs) : xs[i] = xs[1]

\* ys = a * xs + b for some real a # 0 and b, with xs not constant
IsLinearImage(xs, ys) ==
  /\ Len(xs) = Len(ys)
  /\ ~IsConstant(xs)
  /\ ~IsConstant(ys)
  /\ \A i, j \in 1..Len(xs) :
       (ys[i] - ys[1]) * (xs[j] - xs[1]) = (ys[j] - ys[1]) * (xs[i] - xs[1])

BDist(a, b) == IF BCmp(a, b) >= 0 THEN BSub(a, b) ELSE BSub(b, a)

\* r is a double within half a unit in its last place of num / den
\* (num >= 0, den > 0)
NearestTo(r, num, den) ==
  IF num = 0 THEN r = FZero
  ELSE /\ r.k = "fin"
       /\ r.s = 1
       /\ LET ep == Max2(r.e, 0)
              en == Max2(-r.e, 0)
              a == BShl(BMul(r.m, BFromNat(den)), ep)
              b == BShl(BFromNat(num), en)
          IN BCmp(BShl(BDist(a, b), 1), BShl(BFromNat(den), ep)) <= 0

\* |r * r - num / den| <= (num / den) * 2^-bits, for a double 0 <= r < 1024
\* (num >= 0, den > 0)
SquareWithin(r, num, den, bits) ==
  IF num = 0 THEN r = FZero
  ELSE /\ r.k = "fin"
       /\ r.s = 1
       /\ r.e < 0
       /\ LET sh == 2 * (-r.e)
              a == BMul(BMul(r.m, r.m), BFromNat(den))
              b == BShl(BFromNat(num), sh)
          IN BCmp(BDist(a, b), BShl(BFromNat(num), sh - bits)) <= 0

\* |r - 1| <= 2^-bits
WithinOfOne(r, bits) ==
  /\ r.k = "fin"
  /\ r.s = 1
  /\ r.e < 0
  /\ BCmp(BDist(r.m, BShl(BOne, -r.e)), BShl(BOne, -r.e - bits)) <= 0

-----------------------------------------------------------------------------
(* Claims about the analytics functions, checked under SpecAnalytics.       *)

EfficiencyCalled == fn = "calculateMarketEfficiency"

EqualLengthSeries == Len(prices1) = Len(prices2) /\ Len(prices1) >= 2

\* C3: calculateMarketEfficiency returns exactly 0 for every pair of
\* equal-length series of length >= 2 in which at least one series is constant.
\* (The code divides 0 by Math.sqrt(0) there, which is NaN.)
C3_ZeroVarianceGivesZero ==
  (EfficiencyCalled /\ EqualLengthSeries
     /\ (IsConstant(prices1) \/ IsConstant(prices2)))
  => result = FZero

\* C4: for every pair of equal-length series of length >= 2,
\* calculateMarketEfficiency returns a value r with 0 <= r <= 1.
C4_EfficiencyInUnitRange ==
  (EfficiencyCalled /\ EqualLengthSeries)
  => (FLe(FZero, result) /\ FLe(result, FromInt(1)))

\* C5: calculateMarketEfficiency returns 0 whenever the two series differ in
\* length or have fewer than 2 elements, and has read no element by then.
C5_LengthFallback ==
  (EfficiencyCalled /\ (Len(prices1) # Len(prices2) \/ Len(prices1) < 2))
  => (result = FZero /\ reads = 0)

C5_Witness ==
  /\ EfficiencyCalled
  /\ prices1 = <<1, 2>>
  /\ prices2 = <<1, 2, 3>>
  /\ result = FZero

\* C6: for every non-empty series shorter than period, calculateMovingAverage
\* returns the arithmetic mean of the whole series: the double nearest to
\* (sum of the series) / (its length); ([10,20,30], 7) gives 20.
C6_ShortSeriesMean ==
  (fn = "calculateMovingAverage" /\ Len(prices1) > 0 /\ Len(prices1) < period)
  => /\ NearestTo(result, IntSum(prices1), Len(prices1))
     /\ (prices1 = <<10, 20, 30>> /\ period = 7) => result = FromInt(20)

C6_Witness ==
  /\ fn = "calculateMovingAverage"
  /\ prices1 = <<10, 20, 30>>
  /\ period = 7
  /\ result = FromInt(20)

\* C7: for every series with length >= period >= 1, calculateMovingAverage
\* returns the arithmetic mean of exactly the last period elements: the double
\* nearest to (their sum) / period; ([1..10], 3) gives 9.
C7_TrailingWindowMean ==
  (fn = "calculateMovingAverage" /\ period >= 1 /\ Len(prices1) >= period)
  => /\ NearestTo(result,
          IntSum(SubSeq(prices1, Len(prices1) - period + 1, Len(prices1))), period)
     /\ (prices1 = <<1, 2, 3, 4, 5, 6, 7, 8, 9, 10>> /\ period = 3)
          => result = FromInt(9)

C7_Witness ==
  /\ fn = "calculateMovingAverage"
  /\ prices1 = <<1, 2, 3, 4, 5, 6, 7, 8, 9, 10>>
  /\ period = 3
  /\ result = FromInt(9)

\* C8: calculateVolatility returns 0 for the empty series and for every
\* one-element series.
C8_InsufficientDataGivesZero ==
  (fn = "calculateVolatility" /\ Len(prices1) < 2) => result = FZero

C8_Witness ==
  /\ fn = "calculateVolatility"
  /\ prices1 = <<>>
  /\ result = FZero

\* n * (sum of squares) - (sum)^2: n^2 times the population variance
ScaledVariance(xs) == Len(xs) * IntSumSq(xs) - IntSum(xs) * IntSum(xs)

\* C9: for every series of n >= 2 elements, the square of calculateVolatility's
\* result is the sum of squared deviations from the mean divided by n (not
\* n - 1), as far as a double can hold it (relative error at most 2^-45); the
\* result is exactly 0 for a constant series and exactly 5 for [10,20].
C9_PopulationStdDev ==
  (fn = "calculateVolatility" /\ Len(prices1) >= 2)
  => /\ SquareWithin(result, ScaledVariance(prices1), Len(prices1) * Len(prices1), 45)
     /\ IsConstant(prices1) => result = FZero
     /\ prices1 = <<10, 20>> => result = FromInt(5)

C9_Witness ==
  /\ fn = "calculateVolatility"
  /\ prices1 = <<10, 20>>
  /\ result = FromInt(5)

-----------------------------------------------------------------------------
(* Claims about the synthesizer, under SpecGen.                             *)

\* the integer an integer-valued finite double stands for
IntValue(x) ==
  IF x.k = "zero" THEN 0
  ELSE x.s * BToNat(IF x.e >= 0 THEN BShl(x.m, x.e) ELSE BShr(x.m, -x.e))

\* price >= (num / den) * base, in exact arithmetic; a price is an integer or
\* +Infinity
AtLeastShare(price, num, den, base) ==
  \/ price.k = "inf" /\ price.s = 1
  \/ IsFinite(price) /\ den * IntValue(price) >= num * base

CityKey(record) == IF record.city = "Nairobi" THEN "nairobi" ELSE "mombasa"

Commodities == {"maize", "beans"}

Cities == {"nairobi", "mombasa"}

\* the price and the change of a commodity in a record of the snapshot
PriceOf(record, commodity) ==
  IF commodity = "maize" THEN record.maizePrice ELSE record.beansPrice

ChangeOf(record, commodity) ==
  IF commodity = "maize" THEN record.maizeChange ELSE record.beansChange

\* the price of a commodity and city in a point of the history
PointPrice(point, commodity, city) ==
  IF commodity = "maize"
  THEN (IF city = "nairobi" THEN point.nairobiMaize ELSE point.mombasaMaize)
  ELSE (IF city = "nairobi" THEN point.nairobiBeans ELSE point.mombasaBeans)

\* every price of the snapshot is at least num/den of its table value
SnapshotAtLeast(num, den) ==
  \A r \in 1..Len(marketData) : \A c \in Commodities :
    AtLeastShare(PriceOf(marketData[r], c), num, den,
                 BASE_PRICES[c][CityKey(marketData[r])])

\* every price of the history is at least num/den of its table value
HistoryAtLeast(num, den) ==
  \A j \in 1..Len(historicalData) : \A c \in Commodities : \A city \in Cities :
    AtLeastShare(PointPrice(historicalData[j], c, city), num, den,
                 BASE_PRICES[c][city])

\* half of every entry of a table of base prices, rounded
RoundedHalves(basePrices) ==
  Tabulate([j \in 1..HistoryDays |-> FRound(FMul(basePrices[j], Half))])

\* half the base price of every day, commodity and city, rounded
HistoryFloor ==
  [maize |-> [nairobi |-> RoundedHalves(AdjustedBasePrice.maize.nairobi),
              mombasa |-> RoundedHalves(AdjustedBasePrice.maize.mombasa)],
   beans |-> [nairobi |-> RoundedHalves(AdjustedBasePrice.beans.nairobi),
              mombasa |-> RoundedHalves(AdjustedBasePrice.beans.mombasa)]]

\* every price of the history is at least half the base price its day's call
\* of generatePriceFluctuation received, rounded (point j is the one for
\* i = HistoryDays - j)
HistoryAtLeastHalfCallBase ==
  \A j \in 1..Len(historicalData) : \A c \in Commodities : \A city \in Cities :
    FLe(HistoryFloor[c][city][HistoryDays - j + 1],
        PointPrice(historicalData[j], c, city))

\* C1 as stated: every price of the snapshot and every price of the history
\* is at least 0.5 times the BASE_PRICES table value of its commodity and city.
C1_FloorAtHalfTableBase == SnapshotAtLeast(1, 2) /\ HistoryAtLeast(1, 2)

\* C1 amended: every price of the snapshot is at least 0.5 times its table
\* value; every price of the history is at least 0.5 times the base price of
\* its day (table value * trendFactor * seasonalFactor), rounded, and at least
\* 0.475 times its table value.
C1_FloorAtHalfCallBase ==
  /\ SnapshotAtLeast(1, 2)
  /\ HistoryAtLeastHalfCallBase
  /\ HistoryAtLeast(475, 1000)

\* a snapshot price sits on its floor and a history price is below half its
\* table value
C1_Witness ==
  /\ mounted
  /\ \E r \in 1..Len(marketData) : \E c \in Commodities :
       FEq(PriceOf(marketData[r], c),
           FMul(BasePrice[c][CityKey(marketData[r])], Half))
  /\ ~HistoryAtLeast(1, 2)

\* change > 0 exactly if price > base
RisesIff(change, price, base) == FLt(FZero, change) <=> FLt(base, price)

\* change < 0 exactly if price < base
FallsIff(change, price, base) == FLt(change, FZero) <=> FLt(price, base)

\* change = 0 exactly if price = base
FlatIff(change, price, base) == FEq(change, FZero) <=> FEq(price, base)

\* the sign of a change that is not 0 is the side of the base the price is on,
\* and a price equal to the base has change 0
SignAgrees(change, price, base) ==
  /\ FLt(FZero, change) => FLt(base, price)
  /\ FLt(change, FZero) => FLt(price, base)
  /\ FEq(price, base) => FEq(change, FZero)

\* C2 as stated: in every record of the snapshot and for each commodity,
\* change > 0 iff price > base, change < 0 iff price < base and change = 0 iff
\* price = base.
C2_ChangeSignIffPriceSide ==
  \A r \in 1..Len(marketData) : \A c \in Commodities :
    LET base == BasePrice[c][CityKey(marketData[r])]
    IN /\ RisesIff(ChangeOf(marketData[r], c), PriceOf(marketData[r], c), base)
       /\ FallsIff(ChangeOf(marketData[r], c), PriceOf(marketData[r], c), base)
       /\ FlatIff(ChangeOf(marketData[r], c), PriceOf(marketData[r], c), base)

\* C2 amended: in every record of the snapshot and for each commodity,
\* change > 0 implies price > base, change < 0 implies price < base and
\* price = base implies change = 0 (a change rounded to 0.0 goes with any
\* price within 0.05% of the base).
C2_ChangeSignImpliesPriceSide ==
  \A r \in 1..Len(marketData) : \A c \in Commodities :
    SignAgrees(ChangeOf(marketData[r], c), PriceOf(marketData[r], c),
               BasePrice[c][CityKey(marketData[r])])

\* a snapshot with a change of 0 for a price that is not the base price, and
\* a change that is not 0
C2_Witness ==
  /\ \E r \in 1..Len(marketData) : \E c \in Commodities :
       /\ FEq(ChangeOf(marketData[r], c), FZero)
       /\ ~FEq(PriceOf(marketData[r], c),
               BasePrice[c][CityKey(marketData[r])])
  /\ \E r \in 1..Len(marketData) : \E c \in Commodities :
       ~FEq(ChangeOf(marketData[r], c), FZero)

-----------------------------------------------------------------------------
(* Claims about the dates of the history, under SpecClock.                  *)

DaysInMonth(year, month) ==
  IF month = 2
  THEN (IF year % 4 = 0 /\ (year % 100 # 0 \/ year % 400 = 0) THEN 29 ELSE 28)
  ELSE IF month \in {4, 6, 9, 11} THEN 30 ELSE 31

\* date b is the calendar day after date a
IsNextDay(a, b) ==
  IF a[3] < DaysInMonth(a[1], a[2]) THEN b = <<a[1], a[2], a[3] + 1>>
  ELSE IF a[2] < 12 THEN b = <<a[1], a[2] + 1, 1>>
  ELSE b = <<a[1] + 1, 1, 1>>

\* the calendar date the clock of the host shows at the instant t
LocalDate(zone, t) == toISODate(MakeTime(t.day, t.ms + OffsetAt(zone, t)))

\* C11: generateHistoricalData returns exactly 30 points whose dates are
\* contiguous calendar days, oldest first, at every clock reading and in every
\* time zone, also when the 30 days hold a change of daylight saving.
C11_ThirtyContiguousDays ==
  mounted =>
    /\ Len(historicalData) = HistoryDays
    /\ \A j \in 1..(Len(historicalData) - 1) :
         IsNextDay(historicalData[j].date, historicalData[j + 1].date)

\* C12: the date of the last point of the history is the calendar date the
\* clock of the host shows at the call.
C12_LastDateIsToday ==
  (mounted /\ ticks = 0) =>
    historicalData[Len(historicalData)].date = LocalDate(timeZone, clock)

-----------------------------------------------------------------------------
(* Claims about the records of the snapshot and the percent change.         *)

\* change is the double nearest to tenths / 10
IsTenths(change, tenths) ==
  IF tenths = 0 THEN change = FZero
  ELSE /\ change.k = "fin"
       /\ change.s = (IF tenths < 0 THEN -1 ELSE 1)
       /\ NearestTo(FAbs(change), Abs(tenths), 10)

\* the number of tenths in a finite change
TenthsOf(change) == IntValue(FRound(FMul(change, Ten)))

\* change is (price - base) / base * 100 rounded to a tenth: a whole number of
\* tenths that is within 1/2 of 1000 * (price - base) / base, for integers
\* price and base > 0
IsPercentChange(change, price, base) ==
  /\ IsFinite(change)
  /\ IsTenths(change, TenthsOf(change))
  /\ 2 * Abs(TenthsOf(change) * base - 1000 * (price - base)) <= base

\* the change of a record is the percent change of its price against base
\* (a price of +Infinity has the change +Infinity)
ChangeIsAgainst(change, price, base) ==
  IF IsFinite(price) THEN IsPercentChange(change, IntValue(price), base)
  ELSE change = price

\* C13: a snapshot has exactly one record for Nairobi and one for Mombasa; each
\* carries a maize price, a beans price and their percent changes against the
\* base prices of its own city, and both carry the clock reading of the call
\* as lastUpdated.
C13_OneRecordPerCity ==
  marketData # <<>> =>
    /\ Len(marketData) = 2
    /\ marketData[1].city = "Nairobi"
    /\ marketData[2].city = "Mombasa"
    /\ \A r \in 1..2 : \A c \in Commodities :
         /\ ~IsNaN(PriceOf(marketData[r], c))
         /\ ChangeIsAgainst(ChangeOf(marketData[r], c), PriceOf(marketData[r], c),
                            BASE_PRICES[c][CityKey(marketData[r])])
    /\ marketData[1].lastUpdated = marketData[2].lastUpdated
    /\ marketData[1].lastUpdated = clock

\* a snapshot of a tick with finite maize prices whose changes are not 0 and
\* differ between the two cities
C13_Witness ==
  /\ ticks > 0
  /\ Len(marketData) = 2
  /\ IsFinite(marketData[1].maizePrice)
  /\ IsFinite(marketData[2].maizePrice)
  /\ ~FEq(marketData[1].maizeChange, FZero)
  /\ ~FEq(marketData[2].maizeChange, FZero)
  /\ ~FEq(marketData[1].maizeChange, marketData[2].maizeChange)

PriceChangeCalled == fn = "calculatePriceChange"

\* C14: calculatePriceChange called with a base price of zero returns 0.
\* (The code divides by the base price: the result is Infinity, or NaN for a
\* price of 0.)
C14_ZeroBaseGivesZero == (PriceChangeCalled /\ baseArg = 0) => result = FZero

\* C20: for every integer price and positive base price, calculatePriceChange
\* returns (price - base) / base * 100 rounded to the nearest tenth: a whole
\* number of tenths within 1/2 of 1000 * (price - base) / base; a result that
\* is not 0 has the sign of price - base.
C20_PercentChangeToATenth ==
  (PriceChangeCalled /\ baseArg > 0) =>
    /\ IsPercentChange(result, priceArg, baseArg)
    /\ FLt(FZero, result) => priceArg > baseArg
    /\ FLt(result, FZero) => priceArg < baseArg

\* a tie: 2001 against 2000 is 0.05%, returned as 0.1
C20_Witness ==
  /\ PriceChangeCalled
  /\ baseArg = 2000
  /\ priceArg = 2001
  /\ IsTenths(result, 1)

-----------------------------------------------------------------------------
(* Claims about the trend and the seasonal factor of the history.  Entry    *)
(* i + 1 of a table is the value of the iteration for i, the day i days     *)
(* before today; the history holds that day as point HistoryDays - i.       *)

\* the trend factor is below 1 for every day before today
TrendBelowOne == \A i \in 1..(HistoryDays - 1) : FLt(trendFactor[i + 1], One)

\* the trend factor grows from each day to the next, towards today
TrendRisesTowardsToday ==
  \A i \in 1..(HistoryDays - 1) : FLt(trendFactor[i + 1], trendFactor[i])

\* C17: the trend factor of the history is below 1.0 for older days and
\* increases monotonically as the day approaches today.  (In the code it is
\* 1 + i * 0.001 for the day i days ago: 1.029 for the oldest day, falling to
\* 1.0 for today.)
C17_TrendRisesFromBelowOne ==
  mounted => (TrendBelowOne /\ TrendRisesTowardsToday)

\* every seasonal factor lies in [0.95, 1.05]
SeasonalInRange ==
  \A j \in 1..HistoryDays :
    /\ FLe(Decimal(95, 100), seasonalFactor[j])
    /\ FLe(seasonalFactor[j], Decimal(105, 100))

\* One sine cycle over i = 0 .. 29: 1 at i = 0 and i = 15, above 1 between
\* them and below 1 after, rising up to i = 7, falling from i = 8 to i = 22,
\* rising from i = 23 on; at a sixth and at two thirds of the cycle (i = 5 and
\* i = 20) it is 0.05 * sqrt(3) / 2 away from 1.
SeasonalOneSineCycle ==
  /\ seasonalFactor[1] = One
  /\ seasonalFactor[16] = One
  /\ \A i \in 1..14 : FLt(One, seasonalFactor[i + 1])
  /\ \A i \in 16..29 : FLt(seasonalFactor[i + 1], One)
  /\ \A i \in 0..6 : FLt(seasonalFactor[i + 1], seasonalFactor[i + 2])
  /\ \A i \in 8..21 : FLt(seasonalFactor[i + 2], seasonalFactor[i + 1])
  /\ \A i \in 23..28 : FLt(seasonalFactor[i + 1], seasonalFactor[i + 2])
  /\ SquareWithin(FSub(seasonalFactor[6], One), 3, 1600, 40)
  /\ SquareWithin(FSub(One, seasonalFactor[21]), 3, 1600, 40)

\* the base price of every commodity and city is multiplied by the one
\* seasonal factor of the day
SeasonalSameForAll ==
  \A c \in Commodities : \A city \in Cities : \A j \in 1..HistoryDays :
    AdjustedBasePrice[c][city][j] =
      FMul(FMul(BasePrice[c][city], trendFactor[j]), seasonalFactor[j])

\* C18: for each of the 30 days the seasonal multiplier lies in [0.95, 1.05]
\* and follows one full sine cycle over the day index; it is the same for
\* every commodity, city and sequence of draws.
C18_SeasonalSineCycle ==
  mounted => (SeasonalInRange /\ SeasonalOneSineCycle /\ SeasonalSameForAll)

\* a history with a price on its floor on a day whose seasonal factor is
\* above 1 and one on a day whose seasonal factor is below 1
C18_Witness ==
  /\ mounted
  /\ \E j \in 1..14 : \E c \in Commodities : \E city \in Cities :
       PointPrice(historicalData[HistoryDays - j], c, city)
         = HistoryFloor[c][city][j + 1]
  /\ \E j \in 16..29 : \E c \in Commodities : \E city \in Cities :
       PointPrice(historicalData[HistoryDays - j], c, city)
         = HistoryFloor[c][city][j + 1]

-----------------------------------------------------------------------------
(* Claims about the refresh protocol of App.                                *)

\* data is a snapshot whose records were all read at clock reading t
SnapshotReadAt(data, t) ==
  /\ Len(data) = 2
  /\ \A k \in 1..2 : data[k].lastUpdated = t

\* no generator has run before the mount effect; after it the history has
\* been generated once and the snapshot once for the mount and once per tick
CallsFollowProtocol ==
  /\ ~mounted =>
       /\ historyCalls = 0 /\ snapshotCalls = 0
       /\ marketData = <<>> /\ historicalData = <<>>
  /\ mounted =>
       /\ historyCalls = 1 /\ snapshotCalls = ticks + 1
       /\ Len(historicalData) = HistoryDays
       /\ SnapshotReadAt(marketData, clock)
       /\ lastUpdated = clock

\* a tick comes RefreshInterval after the previous reading of the clock,
\* leaves the history alone and replaces the snapshot and lastUpdated by ones
\* read at the tick
TickReplacesSnapshotOnly ==
  (ticks' # ticks) =>
    /\ ticks' = ticks + 1
    /\ clock' = MakeTime(clock.day, clock.ms + RefreshInterval)
    /\ historicalData' = historicalData
    /\ historyCalls' = historyCalls
    /\ SnapshotReadAt(marketData', clock')
    /\ \A k \in 1..2 : Before(marketData[k].lastUpdated, marketData'[k].lastUpdated)
    /\ lastUpdated' = clock'
    /\ Before(lastUpdated, lastUpdated')

\* the history changes in the mount step only
HistoryFromMountOnly ==
  (historicalData' # historicalData) => (~mounted /\ mounted')

\* C19: the history is generated exactly once, on mount, and the snapshot on
\* mount and on every 30-second tick; each tick replaces marketData and
\* lastUpdated by the newest snapshot and its time and leaves historicalData
\* unchanged.
C19_RefreshProtocol ==
  /\ []CallsFollowProtocol
  /\ [][TickReplacesSnapshotOnly /\ HistoryFromMountOnly]_vars

\* the App after its second tick, one minute after the mount
C19_Witness ==
  /\ mounted
  /\ ticks >= 2
  /\ snapshotCalls = ticks + 1
  /\ historyCalls = 1
  /\ lastUpdated = MakeTime(MakeDay(2024, 3, 15), 24 * 1800000 + ticks * RefreshInterval)
  /\ SnapshotReadAt(marketData, lastUpdated)

-----------------------------------------------------------------------------
(* Claims about two runs of the generators.                                 *)

\* the k-th value a random source returns
StreamAt(source, k) == source[((k - 1) % StreamLen) + 1]

\* the two sources return the same values at draws k and k + 1
SamePair(k) ==
  /\ StreamAt(seed, k) = StreamAt(replay.seed, k)
  /\ StreamAt(seed, k + 1) = StreamAt(replay.seed, k + 1)

\* the n-th price a snapshot generates, with its change, and the q-th price
\* of a point of the history, in the order of the calls
SnapshotSlot(data, n) ==
  CASE n = 1 -> <<data[1].maizePrice, data[1].maizeChange>>
    [] n = 2 -> <<data[2].maizePrice, data[2].maizeChange>>
    [] n = 3 -> <<data[1].beansPrice, data[1].beansChange>>
    [] n = 4 -> <<data[2].beansPrice, data[2].beansChange>>

HistorySlot(point, q) ==
  CASE q = 1 -> point.nairobiMaize
    [] q = 2 -> point.nairobiBeans
    [] q = 3 -> point.mombasaMaize
    [] q = 4 -> point.mombasaBeans

BothRunsDone == mounted /\ replay.marketData # <<>>

\* a price is the same in both runs whenever its two draws are: the n-th
\* price of the snapshot has draws 2n - 1 and 2n, the q-th price of point j
\* of the history draws 8 + 8 (j - 1) + 2q - 1 and the next
PricesFollowTheirDraws ==
  /\ \A n \in 1..4 :
       SamePair(2 * n - 1) =>
         SnapshotSlot(marketData, n) = SnapshotSlot(replay.marketData, n)
  /\ \A j \in 1..HistoryDays : \A q \in 1..4 :
       SamePair(8 + 8 * (j - 1) + 2 * q - 1) =>
         HistorySlot(historicalData[j], q)
           = HistorySlot(replay.historicalData[j], q)

\* the times of the snapshot are the same in both runs whenever the clock
\* reading is, the dates of the history whenever the clock reading and the
\* time zone of the host are
TimesFollowTheClock ==
  (clock = replay.clock) =>
    /\ \A r \in 1..2 : marketData[r].lastUpdated = replay.marketData[r].lastUpdated
    /\ (timeZone = replay.timeZone) =>
         \A j \in 1..HistoryDays :
           historicalData[j].date = replay.historicalData[j].date

C16_SameInputs ==
  /\ BothRunsDone
  /\ seed = replay.seed
  /\ clock = replay.clock
  /\ timeZone = replay.timeZone

-----------------------------------------------------------------------------
(* Claims about repeated calls of the analytics functions.                  *)

AnalyticsFunctions ==
  {"calculateMovingAverage", "calculateVolatility", "calculateMarketEfficiency"}

\* the step is a call of the function and on the arguments of the remembered
\* call
RepeatsRemembered ==
  /\ fn = "none"
  /\ fn' \in AnalyticsFunctions
  /\ fn' = remembered.fn
  /\ prices1' = remembered.prices1
  /\ prices2' = remembered.prices2
  /\ period' = remembered.period

\* a call returns what the remembered call of the same function on the same
\* arguments returned
SameCallSameResult == RepeatsRemembered => result' = remembered.result

\* a call leaves the array it is given as it was
InputsNotModified ==
  (fn = "none" /\ fn' \in AnalyticsFunctions) => prices1' = prices1

-----------------------------------------------------------------------------
(* Claims about the clamp.                                                  *)

\* price is basePrice + fluctuation where that is at least half of basePrice
\* and half of basePrice otherwise, rounded; random1 and random2 are the
\* draws of the call
FlooredOnly(price, base, volatility, random1, random2) ==
  LET fluctuation ==
        FMul(FMul(FMul(BoxMullerRadius(random1), BoxMullerCosine(random2)),
                  volatility), base)
  IN price = FRound(IF FLe(FMul(base, Half), FAdd(base, fluctuation))
                    THEN FAdd(base, fluctuation) ELSE FMul(base, Half))

\* the commodity and city of the n-th price of a snapshot and of the q-th
\* price of a point of the history
SnapshotSlotOf(n) ==
  CASE n = 1 -> <<"maize", "nairobi">> [] n = 2 -> <<"maize", "mombasa">>
    [] n = 3 -> <<"beans", "nairobi">> [] n = 4 -> <<"beans", "mombasa">>

HistorySlotOf(q) ==
  CASE q = 1 -> <<"maize", "nairobi">> [] q = 2 -> <<"beans", "nairobi">>
    [] q = 3 -> <<"maize", "mombasa">> [] q = 4 -> <<"beans", "mombasa">>

\* the snapshot on display used the last SnapshotDraws draws, unless it is the
\* one of the mount effect, which used the first
SnapshotStart == IF ticks = 0 THEN 1 ELSE draws - SnapshotDraws + 1

SnapshotFlooredOnly ==
  \A n \in 1..4 :
    FlooredOnly(SnapshotSlot(marketData, n)[1],
                BasePrice[SnapshotSlotOf(n)[1]][SnapshotSlotOf(n)[2]],
                VOLATILITY[SnapshotSlotOf(n)[1]],
                StreamAt(seed, SnapshotStart + 2 * n - 2),
                StreamAt(seed, SnapshotStart + 2 * n - 1))

\* point j of the history is the one of the iteration for i = HistoryDays - j
HistoryFlooredOnly ==
  \A j \in 1..HistoryDays : \A q \in 1..4 :
    FlooredOnly(HistorySlot(historicalData[j], q),
                AdjustedBasePrice[HistorySlotOf(q)[1]][HistorySlotOf(q)[2]][HistoryDays - j + 1],
                HalfVolatility[HistorySlotOf(q)[1]],
                StreamAt(seed, SnapshotDraws + 8 * (j - 1) + 2 * q - 1),
                StreamAt(seed, SnapshotDraws + 8 * (j - 1) + 2 * q))

\* C21: generatePriceFluctuation returns exactly basePrice + fluctuation
\* whenever that is at least 0.5 * basePrice and exactly 0.5 * basePrice
\* otherwise, for the basePrice it was called with; every published price is
\* this result rounded to the nearest integer.  (The history is the same in
\* every state after the mount, so it is looked at in the first.)
C21_ClampIsFloorOnly ==
  /\ mounted => SnapshotFlooredOnly
  /\ (mounted /\ ticks = 0) => HistoryFlooredOnly

\* a snapshot with a price on its floor and a price above twice its base
\* price, after a tick
C21_Witness ==
  /\ mounted
  /\ ticks > 0
  /\ \E n \in 1..4 :
       FEq(SnapshotSlot(marketData, n)[1],
           FMul(BasePrice[SnapshotSlotOf(n)[1]][SnapshotSlotOf(n)[2]], Half))
  /\ \E n \in 1..4 :
       /\ IsFinite(SnapshotSlot(marketData, n)[1])
       /\ FLt(FAdd(BasePrice[SnapshotSlotOf(n)[1]][SnapshotSlotOf(n)[2]],
                   BasePrice[SnapshotSlotOf(n)[1]][SnapshotSlotOf(n)[2]]),
              SnapshotSlot(marketData, n)[1])

-----------------------------------------------------------------------------
(* Claims about the statistics of MarketAnalytics.                          *)

\* the eight statistics on display
DisplayedStatistics ==
  { stats[c][f] : c \in {"maizeStats", "beansStats"},
                  f \in {"volatility", "ma7", "ma30", "efficiency"} }

\* before the mount effect has run the history is empty and all eight are 0
EmptyHistoryGivesZeros ==
  ~mounted => (historicalData = <<>> /\ DisplayedStatistics = {FZero})

\* C22: calculateMarketStats of MarketAnalytics passes no empty series to
\* calculateMovingAverage: for an empty historicalData it returns 0 for all
\* eight statistics, so every displayed statistic is a defined number (not
\* NaN, not infinite) in every reachable state of the App.
C22_StatisticsDefined ==
  /\ EmptyHistoryGivesZeros
  /\ \A x \in DisplayedStatistics : IsFinite(x)

\* statistics rendered from a history of 30 points, all of them defined
C22_DefinedAfterMount ==
  /\ mounted
  /\ Len(historicalData) = HistoryDays
  /\ stats = calculateMarketStats
  /\ \A x \in DisplayedStatistics : IsFinite(x) /\ ~FEq(x, FZero)

-----------------------------------------------------------------------------
(* Claims about the price spreads.                                          *)

\* x is a number that is not negative (Infinity included)
NonNegative(x) == FLe(FZero, x)

\* the prices of the snapshot on display are all finite
PricesFinite ==
  \A k \in 1..Len(marketData) :
    IsFinite(marketData[k].maizePrice) /\ IsFinite(marketData[k].beansPrice)

\* the spreads of App and of MarketAnalytics are the same numbers
SpreadsAgree ==
  /\ AppCalculateMarketStats.priceSpreadMaize = calculatePriceSpreads.maizeSpread
  /\ AppCalculateMarketStats.priceSpreadBeans = calculatePriceSpreads.beansSpread

SpreadsNonNegative ==
  /\ NonNegative(AppCalculateMarketStats.priceSpreadMaize)
  /\ NonNegative(AppCalculateMarketStats.priceSpreadBeans)
  /\ NonNegative(calculatePriceSpreads.maizeSpread)
  /\ NonNegative(calculatePriceSpreads.beansSpread)

\* without two records MarketAnalytics shows spreads of 0
NoDataGivesZeroSpreads ==
  (Len(marketData) < 2) =>
    calculatePriceSpreads = [maizeSpread |-> FZero, beansSpread |-> FZero]

-----------------------------------------------------------------------------
(* Claims about the refresh timer.                                          *)

\* every mount has registered one interval
OneRegistrationPerMount == registrations = mounts

\* while the App is mounted the interval of its effect is the one registered
OneIntervalWhileMounted == mounted => timers = {interval}

\* once the App is unmounted no interval is registered
ClearedOnUnmount == (~mounted) => timers = {}

\* a step taken while no App is mounted is a mount or leaves the snapshot,
\* the time of the last update and the calls of generateMarketData alone
NoRefreshWhileUnmounted ==
  (~mounted) =>
    (mounted' \/ UNCHANGED <<marketData, lastUpdated, snapshotCalls>>)

\* C24: exactly one refresh interval is registered per mount and it is
\* cleared on unmount, so that after the unmount no tick generates a
\* snapshot or updates marketData or lastUpdated.
C24_TimerLifecycle ==
  /\ [](OneRegistrationPerMount /\ OneIntervalWhileMounted /\ ClearedOnUnmount)
  /\ [][NoRefreshWhileUnmounted]_vars

\* the App unmounted for the second time, its intervals having fired
C24_Witness ==
  /\ ~mounted
  /\ mounts = 2
  /\ registrations = 2
  /\ ticks = MaxTicks
  /\ snapshotCalls = mounts + ticks

====
